---- MODULE Spec2Model ----
(***************************************************************************)
(* A model of the agent loop of georgi/agent-workshop: the Conversation    *)
(* transcript (src/conversation.py), the Agent's tool-call resolution loop *)
(* and its run/turn budget (src/agent.py), and the tools an Agent can hold *)
(* (src/tools.py).  The completion endpoint and the caller are the         *)
(* environment: the endpoint answers each request with a failure or with   *)
(* one assistant message, the caller invokes add_tool, send_message and    *)
(* run whenever control is with it.                                        *)
(*                                                                         *)
(* Spec is one Agent built as the CLI builds it; SpecTwo two Agents of one *)
(* process; SpecOverride an Agent built with a system_message argument;    *)
(* SpecTools the tools' execute called directly on argument texts; SpecCli *)
(* the CLI (src/main.py) from the start of the process.                    *)
(***************************************************************************)
EXTENDS Integers, Sequences, FiniteSets, TLC

VARIABLES
    tools,       \* Agent.tools: the ordered list of registered tools
    messages,    \* Conversation.messages: the transcript
    pc,          \* where control is: "idle" (with the caller), "request"
                 \* (_get_response about to call Conversation.send), "resolve"
                 \* (inside the for loop over tool_calls), "run_loop" (run's while)
    response,    \* _get_response's local `response`
    idx,         \* position of the for loop in response.tool_calls (1-based)
    runpc,       \* "none": no run active; "first": run is in its first
                 \* send_message (line 75); "loop": in a "Continue" one (line 81)
    max_turns,   \* the latest run's argument (0 when send_message was called directly)
    turns,       \* run's local `turns` (0 while no run is active)
    outcome,     \* what the caller last got back: "none", "returned", "raised"
    ret,         \* the value last returned by send_message
    callStart,   \* Len(messages) when the current send_message was entered
    runStart,    \* Len(messages) when the current run was entered
    apiCalls,    \* calls of the completion endpoint made by the current send_message
    apiReply,    \* the endpoint's answer to the latest call: "none", "ok", "failed"
    executed,    \* execute calls made by the current send_message, in order: the
                 \* position of the tool in self.tools, and the invocation
    nSends,      \* send_message calls made by the latest run (0 when
                 \* send_message was called directly)
    other,       \* a second Agent of the same process, if there is one: all of
                 \* the above for it, while the first one is being stepped
    aliased,     \* whether the two Agents' self.tools are one list object
    cur,         \* which of the two Agents the variables above describe
    toolRun,     \* one call of a tool's execute made directly: the tool, the
                 \* argument text, what the network does, and the outcome
    environ,     \* os.environ: OPENAI_API_KEY and SERPAPI_API_KEY
    construction \* how the Agent was constructed: by whom, the system_message
                 \* argument, and the error raised if it failed

vars == <<tools, messages, pc, response, idx, runpc, max_turns, turns, outcome,
          ret, callStart, runStart, apiCalls, apiReply, executed, nSends,
          other, aliased, cur, toolRun, environ, construction>>

\* What a step of one Agent leaves alone: the other Agent's own state, and
\* what lies outside the Agent
others == <<other, aliased, cur, toolRun, environ, construction>>

(***************************************************************************)
(* Bounds of the model.                                                    *)
(***************************************************************************)
MaxMessages == 7    \* the transcript is explored up to this length
MaxBatch == 2       \* tool-invocation requests per assistant response
MaxTurns == 3       \* run is called with max_turns in 0..MaxTurns
MaxTools == 2       \* tools registered in one registry

(***************************************************************************)
(* Values.  Python's None is a sentinel string that is no text the program *)
(* or the endpoint produces; an optional list is a record saying whether   *)
(* it is None and, if not, what it holds.                                  *)
(***************************************************************************)
None == "<None>"

NoneCalls == [isNone |-> TRUE, calls |-> <<>>]

ListCalls(s) == [isNone |-> FALSE, calls |-> s]

\* Mutant of Truthy: a single invocation request is not seen
Truthy_MoreThanOne(tc) == ~tc.isNone /\ Len(tc.calls) > 1

\* Python truthiness of `tool_calls`: None and the empty list are falsy.
Truthy(tc) == ~tc.isNone /\ Len(tc.calls) > 0

(***************************************************************************)
(* Text.  Strings are TLA+ strings; lower() and the `in` substring test    *)
(* are computed character by character.                                    *)
(***************************************************************************)
UpperAlphabet == "ABCDEFGHIJKLMNOPQRSTUVWXYZ"

LowerAlphabet == "abcdefghijklmnopqrstuvwxyz"

\* str.lower() on one character
LowerChar(c) ==
    IF \E i \in 1..Len(UpperAlphabet) : SubSeq(UpperAlphabet, i, i) = c
    THEN LET i == CHOOSE j \in 1..Len(UpperAlphabet) : SubSeq(UpperAlphabet, j, j) = c
         IN  SubSeq(LowerAlphabet, i, i)
    ELSE c

RECURSIVE Lower(_)
\* str.lower()
Lower(s) ==
    IF Len(s) = 0 THEN ""
    ELSE LowerChar(SubSeq(s, 1, 1)) \o Lower(SubSeq(s, 2, Len(s)))

\* Python's `needle in hay` on strings
Contains(needle, hay) ==
    \E i \in 1..(Len(hay) - Len(needle) + 1) :
        SubSeq(hay, i, i + Len(needle) - 1) = needle

(***************************************************************************)
(* Tools.  A tool is its class and its name.  execute either returns a     *)
(* text or raises an exception with a message.                             *)
(***************************************************************************)
Returned(text) == [raised |-> FALSE, value |-> text]

Raised(msg) == [raised |-> TRUE, value |-> msg]

\* Tool.execute of the base class
Tool_execute(arguments) ==
    Raised("Tool subclasses must implement execute method")

\* The argument payloads the endpoint sends in this model.
ArgsAdd == "{\"operation\": \"add\", \"a\": 2, \"b\": 3}"

ArgsNotJson == "add 2 and 3"

ArgsEmpty == "{}"

\* A JSON object of the payloads: the keys it has and their values (a key it
\* does not have keeps a placeholder value that nothing reads).
JsonObject(keys, operation, a, b, url, query) ==
    [keys |-> keys, operation |-> operation, a |-> a, b |-> b,
     url |-> url, query |-> query]

\* The values the calculator payloads are built from.  Division is followed
\* where the quotient has a finite decimal expansion (divisors 2, 4 and 5).
Operations == {"add", "subtract", "multiply", "divide", "power"}

FirstNumbers == {-3, 0, 10, 25}

SecondNumbers == {-2, 0, 4, 5, 13}

FiniteQuotient(b) == b \in {-5, -4, -2, -1, 1, 2, 4, 5}

\* {operation, a, b} objects, the schema of lines 40-52
CalculatorObjects ==
    { o \in { JsonObject({"operation", "a", "b"}, op, a, b, None, None) :
                op \in Operations, a \in FirstNumbers, b \in SecondNumbers } :
        o.operation = "divide" => (o.b = 0 \/ FiniteQuotient(o.b)) }

UrlObject == JsonObject({"url"}, None, 0, 0, "https://example.com", None)

QueryObject == JsonObject({"query"}, None, 0, 0, None, "tla+ model checking")

\* Objects that lack a field some tool requires
PartialObjects ==
    { JsonObject({}, None, 0, 0, None, None),
      JsonObject({"operation", "a"}, "add", 2, 0, None, None),
      JsonObject({"a", "b"}, None, 2, 3, None, None) }

JsonObjects == CalculatorObjects \cup {UrlObject, QueryObject} \cup PartialObjects

RECURSIVE Join(_)
\* ", ".join(parts)
Join(parts) ==
    IF Len(parts) = 0 THEN ""
    ELSE IF Len(parts) = 1 THEN parts[1]
    ELSE parts[1] \o ", " \o Join(Tail(parts))

\* json.dumps of an object of the payloads
JsonDumps(o) ==
    LET fields == << <<"operation", "\"operation\": \"" \o o.operation \o "\"">>,
                     <<"a", "\"a\": " \o ToString(o.a)>>,
                     <<"b", "\"b\": " \o ToString(o.b)>>,
                     <<"url", "\"url\": \"" \o o.url \o "\"">>,
                     <<"query", "\"query\": \"" \o o.query \o "\"">> >>
        present == SelectSeq(fields, LAMBDA f : f[1] \in o.keys)
    IN  "{" \o Join([i \in 1..Len(present) |-> present[i][2]]) \o "}"

\* The result of json.loads: the object, or a JSONDecodeError
NotJson == [ok |-> FALSE, keys |-> {}, operation |-> None, a |-> 0, b |-> 0,
            url |-> None, query |-> None]

Parsed(o) == [ok |-> TRUE, keys |-> o.keys, operation |-> o.operation,
              a |-> o.a, b |-> o.b, url |-> o.url, query |-> o.query]

\* json.loads on the payloads of this model: the text of an object parses to
\* that object, any other text is not JSON.
JsonLoads(text) ==
    CASE text = ArgsAdd     -> Parsed(JsonObject({"operation", "a", "b"}, "add", 2, 3, None, None))
      [] text = ArgsEmpty   -> Parsed(JsonObject({}, None, 0, 0, None, None))
      [] text = ArgsNotJson -> NotJson
      [] OTHER ->
           IF \E o \in JsonObjects : JsonDumps(o) = text
           THEN Parsed(CHOOSE o \in JsonObjects : JsonDumps(o) = text)
           ELSE NotJson

\* The message of the JSONDecodeError json.loads raises on ArgsNotJson
JSONDecodeError == "Expecting value: line 1 column 1 (char 0)"

RECURSIVE FractionDigits(_, _)
\* The decimal digits of r / d after the point, 0 <= r < d, d a divisor whose
\* quotients have a finite expansion
FractionDigits(r, d) ==
    IF r = 0 THEN ""
    ELSE ToString((r * 10) \div d) \o FractionDigits((r * 10) % d, d)

\* str(a / b) for integers a and b # 0: true division gives a float, written
\* with at least one digit after the point and with the sign of a zero kept
FloatQuotient(a, b) ==
    LET n == IF a < 0 THEN -a ELSE a
        d == IF b < 0 THEN -b ELSE b
        digits == FractionDigits(n % d, d)
    IN  (IF (a < 0) # (b < 0) THEN "-" ELSE "")
        \o ToString(n \div d) \o "." \o (IF digits = "" THEN "0" ELSE digits)

\* Mutant of Calculator_execute: the division is not guarded, and Python's
\* ZeroDivisionError escapes
Calculator_execute_Unguarded(arguments) ==
    LET args == JsonLoads(arguments) IN
    IF ~args.ok THEN Raised(JSONDecodeError)
    ELSE IF "operation" \notin args.keys THEN Raised("'operation'")
    ELSE IF "a" \notin args.keys THEN Raised("'a'")
    ELSE IF "b" \notin args.keys THEN Raised("'b'")
    ELSE IF args.operation = "add" THEN Returned(ToString(args.a + args.b))
    ELSE IF args.operation = "subtract" THEN Returned(ToString(args.a - args.b))
    ELSE IF args.operation = "multiply" THEN Returned(ToString(args.a * args.b))
    ELSE IF args.operation = "divide"
         THEN IF args.b = 0 THEN Raised("division by zero")
              ELSE Returned(FloatQuotient(args.a, args.b))
    ELSE Returned("Error: Unknown operation " \o args.operation)

\* Calculator.execute
Calculator_execute(arguments) ==
    LET args == JsonLoads(arguments) IN
    IF ~args.ok THEN Raised(JSONDecodeError)
    ELSE IF "operation" \notin args.keys THEN Raised("'operation'")
    ELSE IF "a" \notin args.keys THEN Raised("'a'")
    ELSE IF "b" \notin args.keys THEN Raised("'b'")
    ELSE IF args.operation = "add" THEN Returned(ToString(args.a + args.b))
    ELSE IF args.operation = "subtract" THEN Returned(ToString(args.a - args.b))
    ELSE IF args.operation = "multiply" THEN Returned(ToString(args.a * args.b))
    ELSE IF args.operation = "divide"
         THEN IF args.b = 0 THEN Returned("Error: Division by zero")
              ELSE Returned(FloatQuotient(args.a, args.b))
    ELSE Returned("Error: Unknown operation " \o args.operation)

\* What the network does to a request a tool makes: it answers ("ok"), the
\* requests library raises a RequestException (connection, timeout, HTTP
\* status, or a body that its json() rejects), json() raises the standard
\* library's JSONDecodeError, or something else is raised.
NetworkError == "Connection refused"

FetchOutcomes == {"ok", "RequestException"}

SearchOutcomes == {"ok", "RequestException", "JSONDecodeError", "Exception"}

\* The texts a request that is answered is turned into (json.dumps of the
\* summary)
FetchSummary == "{\"status_code\": 200, \"content_length\": 12}"

SearchSummary == "{\"query\": \"tla+ model checking\", \"organic_results\": []}"

\* WebsiteFetcher.execute, the network doing `net`
WebsiteFetcher_execute(arguments, net) ==
    LET args == JsonLoads(arguments) IN
    IF ~args.ok THEN Raised(JSONDecodeError)
    ELSE IF "url" \notin args.keys THEN Raised("'url'")
    ELSE IF net = "RequestException"
         THEN Returned("Error fetching website: " \o NetworkError)
    ELSE Returned(FetchSummary)

\* SerpApiSearch.execute, the network doing `net`
SerpApiSearch_execute(arguments, net) ==
    LET args == JsonLoads(arguments) IN
    IF ~args.ok THEN Raised(JSONDecodeError)
    ELSE IF "query" \notin args.keys THEN Raised("'query'")
    ELSE IF net = "RequestException"
         THEN Returned("Error performing Google search: " \o NetworkError)
    ELSE IF net = "JSONDecodeError"
         THEN Returned("Error parsing search results. Response was not valid JSON.")
    ELSE IF net = "Exception"
         THEN Returned("Unexpected error performing search: " \o NetworkError)
    ELSE Returned(SearchSummary)

\* tool.execute(function_args): dispatch on the tool's class.  The endpoint of
\* this model requests no tool that uses the network (see Invocations).
Execute(tool, arguments) ==
    CASE tool.kind = "Calculator" -> Calculator_execute(arguments)
      [] tool.kind = "Tool"       -> Tool_execute(arguments)

\* The tools a caller registers: Calculator() and a base-class Tool that is
\* given the same name.
CalculatorTool == [kind |-> "Calculator", name |-> "calculator"]

BaseTool == [kind |-> "Tool", name |-> "calculator"]

ToolChoices == {CalculatorTool, BaseTool}

ToolLists == UNION {[1..n -> ToolChoices] : n \in 0..MaxTools}

(***************************************************************************)
(* Conversation (src/conversation.py).                                     *)
(***************************************************************************)
\* A transcript entry; a key the dict does not have is None.
Message(role, content, tool_call_id, tool_calls) ==
    [role |-> role, content |-> content, tool_call_id |-> tool_call_id,
     tool_calls |-> tool_calls]

\* Mutant of add_message: the message is put first
add_message_Prepends(msgs, role, content) ==
    <<Message(role, content, None, NoneCalls)>> \o msgs

\* Conversation.add_message
add_message(msgs, role, content) ==
    Append(msgs, Message(role, content, None, NoneCalls))

\* Mutant of add_tool_result: the two arguments are stored swapped
add_tool_result_Swapped(msgs, tool_call_id, output) ==
    Append(msgs, Message("tool", tool_call_id, output, NoneCalls))

\* Conversation.add_tool_result
add_tool_result(msgs, tool_call_id, output) ==
    Append(msgs, Message("tool", output, tool_call_id, NoneCalls))

\* dict(message): the entry Conversation.send stores for the endpoint's message
AsDict(message) ==
    Message(message.role, message.content, None, message.tool_calls)

\* Conversation.send, given the message the endpoint returned
send(msgs, message) == Append(msgs, AsDict(message))

(***************************************************************************)
(* The completion endpoint (the environment).  It answers a request with   *)
(* one assistant message: a plain answer, whose tool_calls is None or an   *)
(* empty list, or a message carrying 1..MaxBatch tool-invocation requests  *)
(* with ids that are fresh in the transcript.  A plain answer has a text   *)
(* content; a message that only carries requests has content None.         *)
(***************************************************************************)
Texts == {"Please CONTINUE", "Done."}

Invocations ==
    { [name |-> "calculator", arguments |-> ArgsAdd],
      [name |-> "weather", arguments |-> ArgsEmpty] }

CallId(msgs, k) == "call_" \o ToString(Len(msgs) + 1) \o "_" \o ToString(k)

ToolCall(id, inv) == [id |-> id, name |-> inv.name, arguments |-> inv.arguments]

BatchesOf(msgs, n) ==
    { [k \in 1..n |-> ToolCall(CallId(msgs, k), b[k])] : b \in [1..n -> Invocations] }

Batches(msgs) == UNION { BatchesOf(msgs, n) : n \in 1..MaxBatch }

AssistantMessage(content, tool_calls) ==
    [role |-> "assistant", content |-> content, tool_calls |-> tool_calls]

PlainResponses ==
    { AssistantMessage(t, tc) : t \in Texts, tc \in {NoneCalls, ListCalls(<<>>)} }

ToolResponses(msgs) ==
    { AssistantMessage(None, ListCalls(b)) : b \in Batches(msgs) }

\* What the endpoint may answer, within the explored transcript length (the
\* entries of both Agents' transcripts, when there are two): a batch is
\* answered only if its results and a final answer still fit.
Responses(msgs) ==
    PlainResponses \cup
    { r \in ToolResponses(msgs) :
        Len(msgs) + Len(other.messages) + 1 + Len(r.tool_calls.calls) + 1
            <= MaxMessages }

NoResponse == AssistantMessage(None, NoneCalls)

(***************************************************************************)
(* Agent (src/agent.py).                                                   *)
(***************************************************************************)
Objective == "Help the user"

\* Mutant of SystemMessage: the system_message argument is not looked at
SystemMessage_IgnoresOverride(objective, system_message) ==
    "You are a helpful AI assistant with the objective: " \o objective
    \o ". Think step by step to achieve the objective."

\* `system_message or default_system`, None standing for "not given"
SystemMessage(objective, system_message) ==
    IF system_message = None \/ system_message = ""
    THEN "You are a helpful AI assistant with the objective: " \o objective
         \o ". Think step by step to achieve the objective."
    ELSE system_message

Inputs == {"What is 2 + 3?"}

\* The state of an Agent that is not being stepped, as a record; NoAgent: there
\* is no second Agent.
NoAgent ==
    [tools |-> <<>>, messages |-> <<>>, pc |-> "idle", response |-> NoResponse,
     idx |-> 0, runpc |-> "none", max_turns |-> 0, turns |-> 0, outcome |-> "none",
     ret |-> NoResponse, callStart |-> 0, runStart |-> 0, apiCalls |-> 0,
     apiReply |-> "none", executed |-> <<>>, nSends |-> 0]

\* No tool is being called directly.
NoToolRun == [tool |-> "none", arguments |-> "", net |-> "none",
              done |-> FALSE, out |-> Returned("")]

\* An environment in which the key of the completion endpoint is set
KeySet == [OPENAI_API_KEY |-> "sk-test", SERPAPI_API_KEY |-> None]

\* The record of a construction by `by` that raised `error` (None: it did not)
Constructed(by, system_message, error) ==
    [by |-> by, system_message |-> system_message, error |-> error]

\* Agent.__init__, called as the CLI calls it (src/main.py line 48): with an
\* objective and no system_message
Init ==
    /\ tools \in ToolLists
    /\ messages = add_message(<<>>, "system", SystemMessage(Objective, None))
    /\ pc = "idle"
    /\ response = NoResponse
    /\ idx = 0
    /\ runpc = "none"
    /\ max_turns = 0
    /\ turns = 0
    /\ outcome = "none"
    /\ ret = NoResponse
    /\ callStart = 0
    /\ runStart = 0
    /\ apiCalls = 0
    /\ apiReply = "none"
    /\ executed = <<>>
    /\ nSends = 0
    /\ other = NoAgent
    /\ aliased = FALSE
    /\ cur = 1
    /\ toolRun = NoToolRun
    /\ environ = KeySet
    /\ construction = Constructed("Agent", None, None)

\* Agent.add_tool
AddTool ==
    /\ pc = "idle"
    /\ Len(tools) < MaxTools
    /\ \E t \in ToolChoices : tools' = Append(tools, t)
    /\ UNCHANGED <<messages, pc, response, idx, runpc, max_turns, turns, outcome,
                   ret, callStart, runStart, apiCalls, apiReply, executed, nSends>>
    /\ UNCHANGED others

\* Entering Agent.send_message(content): line 33, up to the call of _get_response
EnterSendMessage(content) ==
    /\ Len(messages) + Len(other.messages) + 2 <= MaxMessages
    /\ messages' = add_message(messages, "user", content)
    /\ pc' = "request"
    /\ callStart' = Len(messages)
    /\ apiCalls' = 0
    /\ apiReply' = "none"
    /\ executed' = <<>>
    /\ response' = NoResponse
    /\ ret' = NoResponse
    /\ idx' = 0

\* The caller calls Agent.send_message
SendMessage ==
    /\ pc = "idle"
    /\ \E content \in Inputs : EnterSendMessage(content)
    /\ outcome' = "none"
    /\ max_turns' = 0
    /\ nSends' = 0
    /\ UNCHANGED <<tools, runpc, turns, runStart>>
    /\ UNCHANGED others

\* The caller calls Agent.run: lines 73-75, up to the first completion request
Run ==
    /\ pc = "idle"
    /\ \E initial_input \in Inputs : EnterSendMessage(initial_input)
    /\ \E mt \in (-1)..MaxTurns : max_turns' = mt
    /\ runpc' = "first"
    /\ turns' = 0
    /\ runStart' = Len(messages)
    /\ nSends' = 1
    /\ outcome' = "none"
    /\ UNCHANGED tools
    /\ UNCHANGED others

\* Mutant of Lookup: the last tool of that name is taken (matching_tools[-1])
Lookup_LastMatch(registry, function_name) ==
    LET matching == {i \in 1..Len(registry) : registry[i].name = function_name}
    IN  IF matching = {} THEN 0
        ELSE CHOOSE i \in matching : \A j \in matching : i >= j

\* Mutant of Lookup: the name is not compared, any registered tool matches
Lookup_IgnoresName(registry, function_name) ==
    IF Len(registry) = 0 THEN 0 ELSE 1

\* Lines 51-55: the position in self.tools of matching_tools[0], the first tool
\* whose name is function_name; 0 when matching_tools is empty.
Lookup(registry, function_name) ==
    LET matching == {i \in 1..Len(registry) : registry[i].name = function_name}
    IN  IF matching = {} THEN 0
        ELSE CHOOSE i \in matching : \A j \in matching : i <= j

\* Mutant of ToolOutput: the exception's message is passed on without "Error: "
ToolOutput_BareMessage(registry, tool_call) ==
    LET i == Lookup(registry, tool_call.name) IN
    IF i # 0
    THEN Execute(registry[i], tool_call.arguments).value
    ELSE "Error: Tool '" \o tool_call.name \o "' not found"

\* Lines 54-66: the content of the tool-result message for one invocation
ToolOutput(registry, tool_call) ==
    LET i == Lookup(registry, tool_call.name) IN
    IF i # 0
    THEN LET out == Execute(registry[i], tool_call.arguments)
         IN  IF out.raised THEN "Error: " \o out.value ELSE out.value
    ELSE "Error: Tool '" \o tool_call.name \o "' not found"

\* Mutant of WithinBudget: the loop does not look at the budget
WithinBudget_Ignored(t, budget) == TRUE

\* Mutant of CurrentCall: every iteration takes the first tool call
CurrentCall_First(message, i) == message.tool_calls.calls[1]

\* Mutant of WithinBudget: the budget is compared with <=
WithinBudget_Inclusive(t, budget) == t <= budget

\* Line 78: the while condition
WithinBudget(t, budget) == t < budget

\* Mutant of ShouldContinue: the test is negated
ShouldContinue_Negated(message) == ~Contains("continue", Lower(message.content))

\* Line 80: "continue" in response.content.lower()
ShouldContinue(message) == Contains("continue", Lower(message.content))

\* Mutant of CurrentCall: the loop walks tool_calls from the end
CurrentCall_Reversed(message, i) ==
    message.tool_calls.calls[Len(message.tool_calls.calls) - i + 1]

\* Lines 45-48: the invocation request the for loop handles in its i-th iteration
CurrentCall(message, i) == message.tool_calls.calls[i]

\* Mutant of AfterBatch: the recursion is cut after the second round and
\* _get_response returns the response that carried the tool calls
AfterBatch_Bounded(rounds) == IF rounds < 2 THEN "request" ELSE "idle"

\* _get_response, line 69: after the for loop a new response is requested,
\* however many rounds this send_message has made
AfterBatch(rounds) == "request"

\* Mutant of RequestFails: the failure is swallowed and the request repeated
RequestFails_Retries ==
    /\ pc = "request"
    /\ apiCalls' = apiCalls + 1
    /\ apiReply' = "failed"
    /\ UNCHANGED <<tools, messages, pc, response, idx, runpc, max_turns, turns,
                   outcome, ret, callStart, runStart, executed, nSends>>
    /\ UNCHANGED others

\* Conversation.send raises (the endpoint call failed): nothing is caught in
\* _get_response, send_message or run, so control is back with the caller.
RequestFails ==
    /\ pc = "request"
    /\ apiCalls' = apiCalls + 1
    /\ apiReply' = "failed"
    /\ pc' = "idle"
    /\ outcome' = "raised"
    /\ runpc' = "none"
    /\ turns' = 0
    /\ UNCHANGED <<tools, messages, response, idx, max_turns, ret,
                   callStart, runStart, executed, nSends>>
    /\ UNCHANGED others

\* _get_response, lines 38-44 and 71: one completion request that succeeds.
\* A response with tool calls enters the for loop; one without is returned by
\* send_message, to the caller or to run (lines 75-76 and 81-82).
RequestCompletion ==
    /\ pc = "request"
    /\ \E r \in Responses(messages) :
         /\ messages' = send(messages, r)
         /\ response' = r
         /\ IF Truthy(r.tool_calls)
            THEN /\ pc' = "resolve"
                 /\ idx' = 1
                 /\ UNCHANGED <<ret, outcome, turns>>
            ELSE /\ ret' = r
                 /\ idx' = 0
                 /\ IF runpc = "none"
                    THEN pc' = "idle" /\ outcome' = "returned" /\ UNCHANGED turns
                    ELSE /\ pc' = "run_loop"
                         /\ turns' = IF runpc = "first" THEN 1 ELSE turns + 1
                         /\ UNCHANGED outcome
    /\ apiCalls' = apiCalls + 1
    /\ apiReply' = "ok"
    /\ UNCHANGED <<tools, runpc, max_turns, callStart, runStart, executed, nSends>>
    /\ UNCHANGED others

\* _get_response, lines 45-69: one iteration of the for loop; after the last
\* one, the recursive call of _get_response.
ResolveToolCall ==
    /\ pc = "resolve"
    /\ LET tool_call == CurrentCall(response, idx)
           i == Lookup(tools, tool_call.name)
       IN  /\ messages' = add_tool_result(messages, tool_call.id,
                                          ToolOutput(tools, tool_call))
           /\ executed' = IF i # 0
                          THEN Append(executed, [index |-> i, id |-> tool_call.id,
                                                 name |-> tool_call.name,
                                                 arguments |-> tool_call.arguments])
                          ELSE executed
    /\ IF idx < Len(response.tool_calls.calls)
       THEN idx' = idx + 1 /\ pc' = "resolve"
       ELSE idx' = 0 /\ pc' = AfterBatch(apiCalls)
    /\ UNCHANGED <<tools, response, runpc, max_turns, turns, outcome, ret,
                   callStart, runStart, apiCalls, apiReply, nSends>>
    /\ UNCHANGED others

\* run, lines 78-86: one evaluation of the while loop
RunLoop ==
    /\ pc = "run_loop"
    /\ IF WithinBudget(turns, max_turns) /\ ShouldContinue(response)
       THEN /\ EnterSendMessage("Continue")
            /\ runpc' = "loop"
            /\ nSends' = nSends + 1
            /\ UNCHANGED <<outcome, turns>>
       ELSE /\ pc' = "idle"
            /\ runpc' = "none"
            /\ outcome' = "run_returned"
            /\ turns' = 0
            /\ UNCHANGED <<messages, response, idx, ret, callStart, apiCalls,
                           apiReply, executed, nSends>>
    /\ UNCHANGED <<tools, max_turns, runStart>>
    /\ UNCHANGED others

Next ==
    \/ AddTool
    \/ SendMessage
    \/ Run
    \/ RequestFails
    \/ RequestCompletion
    \/ ResolveToolCall
    \/ RunLoop

Spec == Init /\ [][Next]_vars

(***************************************************************************)
(* Two Agents in one process.  The caller builds both, from two lists or   *)
(* from one and the same list object; their operations (add_tool,          *)
(* send_message, run) interleave in any order.  `self.tools = tools or []` *)
(* (line 19) keeps the caller's list object when it is not empty and makes *)
(* a fresh list when it is.                                                *)
(***************************************************************************)
\* Line 19: whether two Agents built from the list `given` hold one list object
KeepsCallersList(given) == given # <<>>

\* Agent.__init__ twice
InitTwo ==
    /\ \E l1 \in ToolLists, l2 \in ToolLists, same \in BOOLEAN :
         /\ tools = l1
         /\ other = [NoAgent EXCEPT
                        !.tools = IF same THEN l1 ELSE l2,
                        !.messages = add_message(<<>>, "system",
                                                 SystemMessage(Objective, None))]
         /\ aliased = (same /\ KeepsCallersList(l1))
    /\ messages = add_message(<<>>, "system", SystemMessage(Objective, None))
    /\ pc = "idle"
    /\ response = NoResponse
    /\ idx = 0
    /\ runpc = "none"
    /\ max_turns = 0
    /\ turns = 0
    /\ outcome = "none"
    /\ ret = NoResponse
    /\ callStart = 0
    /\ runStart = 0
    /\ apiCalls = 0
    /\ apiReply = "none"
    /\ executed = <<>>
    /\ nSends = 0
    /\ cur = 1
    /\ toolRun = NoToolRun
    /\ environ = KeySet
    /\ construction = Constructed("Agent", None, None)

\* The Agent being stepped, as a record
ThisAgent ==
    [tools |-> tools, messages |-> messages, pc |-> pc, response |-> response,
     idx |-> idx, runpc |-> runpc, max_turns |-> max_turns, turns |-> turns,
     outcome |-> outcome, ret |-> ret, callStart |-> callStart,
     runStart |-> runStart, apiCalls |-> apiCalls, apiReply |-> apiReply,
     executed |-> executed, nSends |-> nSends]

\* Between two operations of one Agent the other Agent is operated.  A list
\* object both Agents hold is one value: it stays in `tools`.
SwitchAgent ==
    /\ pc = "idle"
    /\ other' = ThisAgent
    /\ tools' = IF aliased THEN tools ELSE other.tools
    /\ messages' = other.messages
    /\ pc' = other.pc
    /\ response' = other.response
    /\ idx' = other.idx
    /\ runpc' = other.runpc
    /\ max_turns' = other.max_turns
    /\ turns' = other.turns
    /\ outcome' = other.outcome
    /\ ret' = other.ret
    /\ callStart' = other.callStart
    /\ runStart' = other.runStart
    /\ apiCalls' = other.apiCalls
    /\ apiReply' = other.apiReply
    /\ executed' = other.executed
    /\ nSends' = other.nSends
    /\ cur' = 3 - cur
    /\ UNCHANGED <<aliased, toolRun, environ, construction>>

NextTwo ==
    \/ AddTool
    \/ SendMessage
    \/ Run
    \/ RequestFails
    \/ RequestCompletion
    \/ ResolveToolCall
    \/ RunLoop
    \/ SwitchAgent

SpecTwo == InitTwo /\ [][NextTwo]_vars

(***************************************************************************)
(* An Agent constructed with a system_message argument.                    *)
(***************************************************************************)
\* The argument: not given, the empty text, or a text
SystemOverrides == {None, "", "Be terse."}

\* Agent.__init__ with a system_message and with or without a list of tools
InitOverride ==
    /\ \E system_message \in SystemOverrides, given \in {<<>>, <<CalculatorTool>>} :
         /\ tools = given
         /\ messages = add_message(<<>>, "system",
                                   SystemMessage(Objective, system_message))
         /\ construction = Constructed("Agent", system_message, None)
    /\ pc = "idle"
    /\ response = NoResponse
    /\ idx = 0
    /\ runpc = "none"
    /\ max_turns = 0
    /\ turns = 0
    /\ outcome = "none"
    /\ ret = NoResponse
    /\ callStart = 0
    /\ runStart = 0
    /\ apiCalls = 0
    /\ apiReply = "none"
    /\ executed = <<>>
    /\ nSends = 0
    /\ other = NoAgent
    /\ aliased = FALSE
    /\ cur = 1
    /\ toolRun = NoToolRun
    /\ environ = KeySet

SpecOverride == InitOverride /\ [][Next]_vars

(***************************************************************************)
(* The tools called directly.  execute is a function of the argument text  *)
(* and, for the tools that use the network, of what the network does: the  *)
(* inputs are drawn at the start and one step applies execute to them.     *)
(***************************************************************************)
\* A fresh Agent with the registry `registry` and the transcript `transcript`
FreshAgent(registry, transcript) ==
    /\ tools = registry
    /\ messages = transcript
    /\ response = NoResponse
    /\ idx = 0
    /\ runpc = "none"
    /\ max_turns = 0
    /\ turns = 0
    /\ outcome = "none"
    /\ ret = NoResponse
    /\ callStart = 0
    /\ runStart = 0
    /\ apiCalls = 0
    /\ apiReply = "none"
    /\ executed = <<>>
    /\ nSends = 0
    /\ other = NoAgent
    /\ aliased = FALSE
    /\ cur = 1

\* The argument texts: every object of the payloads, and two texts that are
\* not JSON
Payloads == {JsonDumps(o) : o \in JsonObjects} \cup {ArgsNotJson, ""}

ToolInputs ==
    {[tool |-> "Calculator", arguments |-> p, net |-> "none"] : p \in Payloads}
    \cup {[tool |-> "WebsiteFetcher", arguments |-> p, net |-> n] :
             p \in Payloads, n \in FetchOutcomes}
    \cup {[tool |-> "SerpApiSearch", arguments |-> p, net |-> n] :
             p \in Payloads, n \in SearchOutcomes}

InitTools ==
    /\ FreshAgent(<<>>, add_message(<<>>, "system", SystemMessage(Objective, None)))
    /\ pc = "idle"
    /\ environ = KeySet
    /\ construction = Constructed("Agent", None, None)
    /\ \E i \in ToolInputs :
         toolRun = [tool |-> i.tool, arguments |-> i.arguments, net |-> i.net,
                    done |-> FALSE, out |-> Returned("")]

\* execute of the tool of class `kind`
ExecuteTool(kind, arguments, net) ==
    CASE kind = "Calculator"     -> Calculator_execute(arguments)
      [] kind = "WebsiteFetcher" -> WebsiteFetcher_execute(arguments, net)
      [] kind = "SerpApiSearch"  -> SerpApiSearch_execute(arguments, net)

\* The tool's execute is called with the argument text
RunTool ==
    /\ toolRun.tool # "none"
    /\ ~toolRun.done
    /\ toolRun' = [toolRun EXCEPT
                      !.done = TRUE,
                      !.out = ExecuteTool(toolRun.tool, toolRun.arguments, toolRun.net)]
    /\ UNCHANGED <<tools, messages, pc, response, idx, runpc, max_turns, turns,
                   outcome, ret, callStart, runStart, apiCalls, apiReply, executed,
                   nSends, other, aliased, cur, environ, construction>>

NextTools == RunTool

SpecTools == InitTools /\ [][NextTools]_vars

(***************************************************************************)
(* Construction and the CLI (src/main.py).  The process starts with some   *)
(* environment; initialize_agent builds the Agent and registers the tools; *)
(* main then calls send_message again and again, and goes on after an      *)
(* exception (lines 131-174).  An exception of initialize_agent itself is  *)
(* not caught (line 126): the process ends.                                *)
(***************************************************************************)
\* Python truthiness of an Optional[str]: None and "" are falsy.
TruthyText(text) == text # None /\ text # ""

\* `a or b`
Or(a, b) == IF TruthyText(a) THEN a ELSE b

\* Mutant of Conversation_init: only a key that is None is rejected
Conversation_init_AcceptsEmpty(api_key, env) ==
    LET key == Or(api_key, env.OPENAI_API_KEY) IN
    IF key = None
    THEN Raised("OpenAI API key is required. Set OPENAI_API_KEY environment "
                \o "variable or pass it directly.")
    ELSE Returned(key)

\* Conversation.__init__: the key it keeps, or the ValueError it raises
Conversation_init(api_key, env) ==
    LET key == Or(api_key, env.OPENAI_API_KEY) IN
    IF ~TruthyText(key)
    THEN Raised("OpenAI API key is required. Set OPENAI_API_KEY environment "
                \o "variable or pass it directly.")
    ELSE Returned(key)

\* SerpApiSearch.__init__: the key it keeps, or the ValueError it raises
SerpApiSearch_init(api_key, env) ==
    LET key == Or(api_key, env.SERPAPI_API_KEY) IN
    IF ~TruthyText(key)
    THEN Raised("SerpAPI API key is required. Set SERPAPI_API_KEY environment "
                \o "variable or pass it as a parameter.")
    ELSE Returned(key)

\* WebsiteFetcher() and SerpApiSearch() as registered tools
FetcherTool == [kind |-> "WebsiteFetcher", name |-> "fetch_website"]

SearchTool == [kind |-> "SerpApiSearch", name |-> "google_search"]

CliObjective == "Help the user solve problems using available tools"

\* A variable of the environment is unset (None), empty, or holds a key.
Environs ==
    [OPENAI_API_KEY : {None, "", "sk-test"}, SERPAPI_API_KEY : {None, "", "serp-test"}]

\* The process has started; no Agent exists yet.
InitCli ==
    /\ FreshAgent(<<>>, <<>>)
    /\ pc = "unbuilt"
    /\ toolRun = NoToolRun
    /\ environ \in Environs
    /\ construction = Constructed("none", None, None)

\* initialize_agent (lines 38-71).  Agent(...) constructs its Conversation
\* with no api_key argument (src/agent.py line 21), outside any try; only
\* add_tool(SerpApiSearch()) is inside one.
InitializeAgent ==
    /\ pc = "unbuilt"
    /\ LET conversation == Conversation_init(None, environ)
           search == SerpApiSearch_init(None, environ)
           two == Append(Append(<<>>, CalculatorTool), FetcherTool)
       IN  IF conversation.raised
           THEN /\ pc' = "failed"
                /\ construction' = Constructed("initialize_agent", None, conversation.value)
                /\ UNCHANGED <<tools, messages>>
           ELSE /\ pc' = "idle"
                /\ construction' = Constructed("initialize_agent", None, None)
                /\ messages' = add_message(<<>>, "system", SystemMessage(CliObjective, None))
                /\ tools' = IF search.raised THEN two ELSE Append(two, SearchTool)
    /\ UNCHANGED <<response, idx, runpc, max_turns, turns, outcome, ret, callStart,
                   runStart, apiCalls, apiReply, executed, nSends, other, aliased,
                   cur, toolRun, environ>>

NextCli ==
    \/ InitializeAgent
    \/ SendMessage
    \/ RequestFails
    \/ RequestCompletion
    \/ ResolveToolCall

SpecCli == InitCli /\ [][NextCli]_vars

(***************************************************************************)
(* Properties.  Helpers to read the transcript.                            *)
(***************************************************************************)
\* The invocation requests an entry carries (none unless an assistant message)
CallsOf(m) == IF m.role = "assistant" /\ ~m.tool_calls.isNone THEN m.tool_calls.calls ELSE <<>>

\* The entries that are assistant messages carrying at least one request
BatchHeads == {p \in 1..Len(messages) : Len(CallsOf(messages[p])) > 0}

\* The entries appended by the current send_message call
InCall(q) == q > callStart /\ q <= Len(messages)

\* The number of assistant messages appended by the current send_message call
ResponsesInCall ==
    Cardinality({q \in 1..Len(messages) : InCall(q) /\ messages[q].role = "assistant"})

ToolEntry(id, content) ==
    [role |-> "tool", content |-> content, tool_call_id |-> id, tool_calls |-> NoneCalls]

\* Whether a tool of that name is in the registry
Registered(name) == \E i \in 1..Len(tools) : tools[i].name = name

\* The first and the last position in the registry of a tool of that name
FirstOfName(name) ==
    CHOOSE i \in 1..Len(tools) :
        tools[i].name = name /\ \A j \in 1..(i - 1) : tools[j].name # name

LastOfName(name) ==
    CHOOSE i \in 1..Len(tools) :
        tools[i].name = name /\ \A j \in (i + 1)..Len(tools) : tools[j].name # name

\* C1: the tool-result messages of a response carrying requests [i1..in] are
\* exactly those for i1..in, in that order, directly after the response; the
\* batch is incomplete only while the for loop is at that position (so no
\* completion request is issued before it is complete), and what follows a
\* complete batch is no tool result.  No tool-result message stands anywhere
\* else.
C1_ResultsFollowInEmissionOrder ==
    /\ \A p \in BatchHeads :
         LET calls == CallsOf(messages[p])
             n == Len(calls)
         IN  /\ \A k \in 1..n :
                   p + k <= Len(messages) =>
                       /\ messages[p + k].role = "tool"
                       /\ messages[p + k].tool_call_id = calls[k].id
             /\ p + n > Len(messages) =>
                   /\ pc = "resolve"
                   /\ idx = Len(messages) - p + 1
                   /\ response.tool_calls.calls = calls
             /\ p + n = Len(messages) => (pc = "request" \/ apiReply = "failed")
             /\ p + n < Len(messages) => messages[p + n + 1].role # "tool"
    /\ \A q \in 1..Len(messages) :
         messages[q].role = "tool" =>
             \E p \in BatchHeads : p < q /\ q <= p + Len(CallsOf(messages[p]))

\* C1 witness: a batch of two requests is resolved and the next response is in
C1_Witness ==
    \E p \in BatchHeads :
        /\ Len(CallsOf(messages[p])) = 2
        /\ Len(messages) >= p + 3
        /\ messages[p + 1].tool_call_id = CallsOf(messages[p])[1].id
        /\ messages[p + 2].tool_call_id = CallsOf(messages[p])[2].id

\* C2: when execute raised with message M for an invocation of the current
\* call, the transcript holds the tool result "Error: M" for that id, the rest
\* of the batch is resolved, the next completion request is issued (it was
\* answered, or it failed), and send_message itself fails only if the endpoint
\* did.
C2_ToolFaultBecomesResult ==
    /\ \A j \in 1..Len(executed) :
         LET e == executed[j]
             out == Execute(tools[e.index], e.arguments)
         IN  out.raised =>
               \E p \in BatchHeads :
                 LET calls == CallsOf(messages[p])
                     n == Len(calls)
                 IN  /\ InCall(p)
                     /\ \E k \in 1..n :
                          /\ calls[k].id = e.id
                          /\ p + k <= Len(messages)
                          /\ messages[p + k] = ToolEntry(e.id, "Error: " \o out.value)
                     /\ (pc # "resolve" \/ response.tool_calls.calls # calls)
                          => Len(messages) >= p + n
                     /\ pc \in {"idle", "run_loop"} =>
                          \/ /\ Len(messages) > p + n
                             /\ messages[p + n + 1].role = "assistant"
                          \/ /\ Len(messages) = p + n
                             /\ outcome = "raised"
                             /\ apiReply = "failed"
    /\ outcome = "raised" => apiReply = "failed"

\* C2 witness: the first tool of a batch of two raised, and send_message returned
C2_Witness ==
    /\ pc = "idle"
    /\ outcome = "returned"
    /\ Len(executed) = 2
    /\ Execute(tools[executed[1].index], executed[1].arguments).raised
    /\ \E p \in BatchHeads : InCall(p) /\ Len(CallsOf(messages[p])) = 2

\* C3: while a call is in progress, an invocation naming a tool that is not
\* registered has made no execute call and its result is exactly
\* "Error: Tool 'X' not found"; the invocations after it in the batch are
\* executed (or not) and answered as their own name and arguments decide.
C3_UnknownToolIsReported ==
    pc # "idle" =>
      \A p \in BatchHeads :
        InCall(p) =>
          LET calls == CallsOf(messages[p]) IN
          \A k \in 1..Len(calls) :
            (~Registered(calls[k].name) /\ p + k <= Len(messages)) =>
              /\ \A j \in 1..Len(executed) : executed[j].id # calls[k].id
              /\ messages[p + k] =
                   ToolEntry(calls[k].id, "Error: Tool '" \o calls[k].name \o "' not found")
              /\ \A l \in (k + 1)..Len(calls) :
                   p + l <= Len(messages) =>
                     /\ messages[p + l].tool_call_id = calls[l].id
                     /\ ~Registered(calls[l].name) =>
                          messages[p + l].content =
                              "Error: Tool '" \o calls[l].name \o "' not found"
                     /\ Registered(calls[l].name) =>
                          /\ \E j \in 1..Len(executed) :
                               /\ executed[j].id = calls[l].id
                               /\ executed[j].arguments = calls[l].arguments
                          /\ LET out == Execute(tools[FirstOfName(calls[l].name)],
                                                calls[l].arguments)
                             IN  messages[p + l].content =
                                   IF out.raised THEN "Error: " \o out.value
                                   ELSE out.value

\* C3 witness: an unknown tool first, then a registered one that returned "5"
C3_Witness ==
    /\ pc = "request"
    /\ \E p \in BatchHeads :
         /\ InCall(p)
         /\ Len(CallsOf(messages[p])) = 2
         /\ Len(messages) = p + 2
         /\ ~Registered(CallsOf(messages[p])[1].name)
         /\ messages[p + 1].content = "Error: Tool 'weather' not found"
         /\ messages[p + 2].content = "5"

\* C4: when send_message has returned (to the caller, or to run), the value
\* returned carries no invocation request, it is the answer to the last
\* completion request of the call and the last entry of the transcript, and
\* every earlier response of the call carried at least one request.
C4_ReturnsOnlyPlainAnswer ==
    ((pc = "idle" /\ outcome = "returned") \/ pc = "run_loop") =>
        /\ ret.tool_calls.isNone \/ Len(ret.tool_calls.calls) = 0
        /\ apiReply = "ok"
        /\ apiCalls = ResponsesInCall
        /\ messages[Len(messages)].role = "assistant"
        /\ messages[Len(messages)].content = ret.content
        /\ messages[Len(messages)].tool_calls = ret.tool_calls
        /\ \A q \in 1..(Len(messages) - 1) :
             (InCall(q) /\ messages[q].role = "assistant") =>
                 Len(CallsOf(messages[q])) >= 1

\* C4 witness: send_message returned an answer whose tool_calls is an empty
\* list, after a response that carried requests
C4_Witness ==
    /\ pc = "idle"
    /\ outcome = "returned"
    /\ ~ret.tool_calls.isNone
    /\ apiCalls = 2

\* C5: every step leaves the transcript as it is or appends one entry to it;
\* entering send_message appends a user message, an iteration of the for loop
\* a tool message, an answered completion request an assistant message.
C5_TranscriptAppendOnly ==
    [][ \/ messages' = messages
        \/ /\ Len(messages') = Len(messages) + 1
           /\ SubSeq(messages', 1, Len(messages)) = messages
           /\ pc \in {"idle", "run_loop"} => messages'[Len(messages')].role = "user"
           /\ pc = "resolve" => messages'[Len(messages')].role = "tool"
           /\ pc = "request" => messages'[Len(messages')].role = "assistant"
      ]_vars

\* C5 witness: a transcript with a system, a user, an assistant and two tool
\* messages and a second user message
C5_Witness ==
    /\ Len(messages) >= 6
    /\ messages[1].role = "system"
    /\ \E q \in 3..Len(messages) : messages[q].role = "user"
    /\ Cardinality({q \in 1..Len(messages) : messages[q].role = "tool"}) >= 2

\* C6: the tool_call_id of every tool message is the id of an invocation
\* request of an assistant message earlier in the transcript.
C6_ToolCallIdHasRequest ==
    \A q \in 1..Len(messages) :
        messages[q].role = "tool" =>
            \E p \in 1..(q - 1) :
                \E k \in 1..Len(CallsOf(messages[p])) :
                    CallsOf(messages[p])[k].id = messages[q].tool_call_id

\* C6 witness: tool messages of two different batches
C6_Witness ==
    \E q1, q2 \in 1..Len(messages) :
        /\ q1 + 1 < q2
        /\ messages[q1].role = "tool"
        /\ messages[q2].role = "tool"
        /\ messages[q2 - 1].role = "assistant"

UserEntriesOfRun ==
    {q \in 1..Len(messages) : q > runStart /\ messages[q].role = "user"}

\* Case-insensitive containment of "continue"
SaysContinue(text) == Contains("continue", Lower(text))

\* C8: during and after run with max_turns = 1, send_message has been called
\* once and the one user message of the run is the initial input.
C8_SingleTurnNeverContinues ==
    (nSends >= 1 /\ max_turns = 1) =>
        /\ nSends = 1
        /\ UserEntriesOfRun = {runStart + 1}
        /\ messages[runStart + 1].content \in Inputs

\* C8 witness: run with max_turns = 1 returned although the answer says "continue"
C8_Witness ==
    /\ pc = "idle"
    /\ outcome = "run_returned"
    /\ max_turns = 1
    /\ SaysContinue(messages[Len(messages)].content)

\* C9: in run's loop a message is sent only if the answer of the turn just
\* finished says "continue" (in any case), and it is the user message
\* "Continue"; if the answer does not say it, the step returns from run with
\* the transcript as it is.
C9_ContinueOnlyWhenAsked ==
    [][ pc = "run_loop" =>
          LET last == messages[Len(messages)] IN
          /\ last.role = "assistant"
          /\ messages' # messages =>
                /\ SaysContinue(last.content)
                /\ messages' = Append(messages, [role |-> "user", content |-> "Continue",
                                                 tool_call_id |-> None,
                                                 tool_calls |-> NoneCalls])
          /\ ~SaysContinue(last.content) =>
                /\ messages' = messages
                /\ pc' = "idle"
                /\ outcome' = "run_returned"
      ]_vars

\* C9 witness: run sent "Continue" once and returned on an answer that does not
\* say "continue", with turns left
C9_Witness ==
    /\ pc = "idle"
    /\ outcome = "run_returned"
    /\ nSends = 2
    /\ max_turns = 3
    /\ ~SaysContinue(messages[Len(messages)].content)
    /\ \E q \in UserEntriesOfRun : messages[q].content = "Continue"

\* C10: when the endpoint call failed, control is back with the caller with the
\* failure (run is left too), the endpoint was called once more than it
\* answered in this call, the transcript ends with what was there before the
\* request, and every execute call of the call has its result in the transcript.
C10_CompletionFailurePropagates ==
    apiReply = "failed" =>
        /\ pc = "idle"
        /\ outcome = "raised"
        /\ runpc = "none"
        /\ apiCalls = ResponsesInCall + 1
        /\ messages[Len(messages)].role \in {"user", "tool"}
        /\ \A j \in 1..Len(executed) :
             \E q \in 1..Len(messages) :
                 InCall(q) /\ messages[q].role = "tool"
                           /\ messages[q].tool_call_id = executed[j].id

\* C10 witness: the second completion request of a call failed, after a tool ran
C10_Witness ==
    /\ apiReply = "failed"
    /\ apiCalls = 2
    /\ Len(executed) >= 1

\* Whether the entry is a plain assistant answer (no invocation request)
IsPlainAnswer(m) == m.role = "assistant" /\ Len(CallsOf(m)) = 0

\* C11: whenever control is with the caller, every user message of the
\* transcript has its plain assistant answer before the next user message (or
\* the end), and every assistant message carrying invocation requests is
\* followed by a later plain assistant answer.
C11_NoPartialStateAtCaller ==
    pc = "idle" =>
        /\ \A q \in 1..Len(messages) :
             messages[q].role = "user" =>
                 \E r \in (q + 1)..Len(messages) :
                     /\ IsPlainAnswer(messages[r])
                     /\ \A u \in (q + 1)..r : messages[u].role # "user"
        /\ \A p \in BatchHeads :
             \E r \in (p + 1)..Len(messages) : IsPlainAnswer(messages[r])

\* The registry and the transcript of the Agent that is not being stepped
OtherTools == IF aliased THEN tools ELSE other.tools

OtherMessages == other.messages

\* C12: a step of one Agent (add_tool, or a step of send_message or run)
\* leaves the other Agent's registry and transcript as they are.
C12_AgentsShareNothing ==
    [][ cur' = cur => (OtherTools' = OtherTools /\ OtherMessages' = OtherMessages) ]_vars

(***************************************************************************)
(* The tools' execute on argument texts (SpecTools).                       *)
(***************************************************************************)
\* The fields each tool's schema lists as required (src/tools.py lines 51,
\* 91 and 156)
Required(kind) ==
    CASE kind = "Calculator"     -> {"operation", "a", "b"}
      [] kind = "WebsiteFetcher" -> {"url"}
      [] kind = "SerpApiSearch"  -> {"query"}

\* The malformed argument texts for a tool: not JSON, or an object that lacks
\* a required field
MalformedPayloads(kind) ==
    {ArgsNotJson, ""}
    \cup {JsonDumps(o) : o \in {x \in JsonObjects : ~(Required(kind) \subseteq x.keys)}}

\* text.startswith(prefix)
StartsWith(prefix, text) ==
    Len(text) >= Len(prefix) /\ SubSeq(text, 1, Len(prefix)) = prefix

\* C13: on a malformed argument text (not JSON, or a JSON object that lacks a
\* required field) the execute of Calculator, WebsiteFetcher and SerpApiSearch
\* returns a text that begins with "Error:" and does not raise.
C13_MalformedArgumentsGiveErrorText ==
    (toolRun.done /\ toolRun.arguments \in MalformedPayloads(toolRun.tool)) =>
        /\ ~toolRun.out.raised
        /\ StartsWith("Error:", toolRun.out.value)

\* The four operations of the calculator's schema (src/tools.py line 45)
FourOperations == {"add", "subtract", "multiply", "divide"}

\* C14: on a well-formed {operation, a, b} text with integers a and b,
\* Calculator.execute does not raise; add, subtract and multiply return the
\* decimal text of a + b, a - b and a * b (multiply 25, 13 gives "325"); divide
\* with b = 0 returns exactly "Error: Division by zero"; an operation outside
\* the four returns "Error: Unknown operation <operation>".
C14_CalculatorResults ==
    (toolRun.done /\ toolRun.tool = "Calculator") =>
        /\ \A o \in CalculatorObjects : toolRun.arguments = JsonDumps(o) =>
              /\ ~toolRun.out.raised
              /\ o.operation = "add" => toolRun.out.value = ToString(o.a + o.b)
              /\ o.operation = "subtract" => toolRun.out.value = ToString(o.a - o.b)
              /\ o.operation = "multiply" => toolRun.out.value = ToString(o.a * o.b)
              /\ (o.operation = "divide" /\ o.b = 0) =>
                     toolRun.out.value = "Error: Division by zero"
              /\ o.operation \notin FourOperations =>
                     toolRun.out.value = "Error: Unknown operation " \o o.operation
        /\ toolRun.arguments = "{\"operation\": \"multiply\", \"a\": 25, \"b\": 13}" =>
              toolRun.out = Returned("325")

\* Calculator.execute has returned "325" for multiply 25, 13.
C14_Witness ==
    /\ toolRun.done
    /\ toolRun.tool = "Calculator"
    /\ toolRun.arguments = "{\"operation\": \"multiply\", \"a\": 25, \"b\": 13}"
    /\ toolRun.out = Returned("325")

(***************************************************************************)
(* Construction (SpecCli).                                                 *)
(***************************************************************************)
\* No credential: the variable is unset or empty.
Missing(key) == key = None \/ key = ""

\* The classes of the registered tools, in registration order
Kinds(registry) == [i \in 1..Len(registry) |-> registry[i].kind]

\* C15: a missing credential is fatal at construction.  Without the endpoint's
\* key the construction of the Conversation, hence of the Agent, fails and no
\* Agent exists; SerpApiSearch fails likewise without its key, and that
\* failure alone is caught by initialize_agent, which then returns an Agent
\* whose registry holds Calculator and WebsiteFetcher and no search tool.
C15_MissingCredentialIsFatal ==
    construction.by = "initialize_agent" =>
        /\ Missing(environ.OPENAI_API_KEY) =>
              /\ pc = "failed"
              /\ construction.error # None
              /\ tools = <<>> /\ messages = <<>>
        /\ ~Missing(environ.OPENAI_API_KEY) =>
              /\ pc # "failed"
              /\ construction.error = None
              /\ Missing(environ.SERPAPI_API_KEY) =>
                    Kinds(tools) = <<"Calculator", "WebsiteFetcher">>
              /\ ~Missing(environ.SERPAPI_API_KEY) =>
                    Kinds(tools) = <<"Calculator", "WebsiteFetcher", "SerpApiSearch">>

\* The CLI's Agent, built without the search key, has answered a message.
C15_Witness ==
    /\ construction.by = "initialize_agent"
    /\ Missing(environ.SERPAPI_API_KEY)
    /\ Kinds(tools) = <<"Calculator", "WebsiteFetcher">>
    /\ pc = "idle"
    /\ outcome = "returned"

(***************************************************************************)
(* Resolution and the turn budget (Spec).                                  *)
(***************************************************************************)
\* The execute calls made for the invocation request `id`
ExecutedFor(id) == {e \in 1..Len(executed) : executed[e].id = id}

\* C16: each invocation request is resolved exactly once.  When the next
\* completion request is about to be issued after a response carrying n
\* requests, the transcript ends with that response and exactly n tool
\* results, one for each request id; execute was called exactly once for each
\* request naming a registered tool, with the request's argument text as it
\* came, and not at all for the others.
C16_EachInvocationResolvedOnce ==
    (pc = "request" /\ Truthy(response.tool_calls)) =>
        LET calls == response.tool_calls.calls
            n == Len(calls)
            p == Len(messages) - n
        IN  /\ p >= 1
            /\ CallsOf(messages[p]) = calls
            /\ \A j \in (p + 1)..Len(messages) : messages[j].role = "tool"
            /\ \A k \in 1..n :
                 /\ Cardinality({j \in (p + 1)..Len(messages) :
                                    messages[j].tool_call_id = calls[k].id}) = 1
                 /\ Cardinality(ExecutedFor(calls[k].id)) =
                        IF Registered(calls[k].name) THEN 1 ELSE 0
                 /\ \A e \in ExecutedFor(calls[k].id) :
                        /\ executed[e].name = calls[k].name
                        /\ executed[e].arguments = calls[k].arguments

\* C16 witness: a batch of two requests, one for a registered tool and one
\* for a name that is not registered, has been resolved
C16_Witness ==
    /\ pc = "request"
    /\ Truthy(response.tool_calls)
    /\ Len(response.tool_calls.calls) = 2
    /\ Registered(response.tool_calls.calls[1].name)
    /\ ~Registered(response.tool_calls.calls[2].name)
    /\ Len(executed) = 1

\* The responses of the current send_message that carried tool calls
ToolRoundsInCall == Cardinality({p \in BatchHeads : InCall(p)})

FinalResponsesOfRun ==
    {q \in 1..Len(messages) : q > runStart /\ IsPlainAnswer(messages[q])}

\* C18: run calls send_message at most max_turns times when max_turns >= 1,
\* exactly max_turns times when the final response of every turn says
\* "continue", and exactly once when max_turns <= 0; the loop's counter is
\* the number of calls made, so run ends after that many calls.
C18_RunWithinTurnBudget ==
    nSends >= 1 =>
        /\ max_turns >= 1 => nSends <= max_turns
        /\ max_turns <= 0 => nSends = 1
        /\ pc = "run_loop" => turns = nSends
        /\ (pc = "idle" /\ outcome = "run_returned" /\ max_turns >= 1
              /\ \A q \in FinalResponsesOfRun : SaysContinue(messages[q].content)) =>
                  nSends = max_turns

\* C18 witness: run with max_turns = 2 returned after two calls, both answers
\* saying "continue"
C18_Witness ==
    /\ pc = "idle"
    /\ outcome = "run_returned"
    /\ max_turns = 2
    /\ nSends = 2
    /\ Cardinality(FinalResponsesOfRun) = 2
    /\ \A q \in FinalResponsesOfRun : SaysContinue(messages[q].content)

(***************************************************************************)
(* The system message (SpecOverride).                                      *)
(***************************************************************************)
\* The default system message for the objective of the model
DefaultSystemText ==
    "You are a helpful AI assistant with the objective: " \o Objective
    \o ". Think step by step to achieve the objective."

\* The transcript holds exactly one system message, at its start, with this content
OnlySystemMessageIs(content) ==
    /\ Len(messages) >= 1
    /\ messages[1].role = "system"
    /\ messages[1].content = content
    /\ \A q \in 2..Len(messages) : messages[q].role # "system"

\* C19, as claimed: the first message of the transcript is the system message
\* set at construction, the system_message argument when one is given and
\* else the default built from the objective, and no other system message is
\* ever appended.
C19_OverrideIsFirstMessage ==
    OnlySystemMessageIs(IF construction.system_message # None
                        THEN construction.system_message
                        ELSE DefaultSystemText)

\* C19, amended: the first message of the transcript is the system message
\* set at construction, the system_message argument when it is given and not
\* empty and else the default built from the objective, and no other system
\* message is ever appended.
C19_NonEmptyOverrideIsFirstMessage ==
    OnlySystemMessageIs(IF construction.system_message # None
                           /\ construction.system_message # ""
                        THEN construction.system_message
                        ELSE DefaultSystemText)

\* C19 witness: an Agent constructed with an override has answered a message
\* after a round of tool calls
C19_Witness ==
    /\ construction.system_message = "Be terse."
    /\ messages[1].content = "Be terse."
    /\ pc = "idle"
    /\ outcome = "returned"
    /\ apiCalls = 2

====
